---- MODULE Spec2Model ----
(***************************************************************************)
(* A model of the dense row-major matrix container of cosmobobak/matrix:   *)
(* Matrix<T> (src/src/matrix.rs), MatrixSlice<'a, T> (src/src/slice.rs)    *)
(* and MatrixSliceMut<'a, T> (src/src/slicemut.rs).                        *)
(*                                                                         *)
(* The state is one Matrix (rows, cols, data), at most one live borrowed   *)
(* view of it, and the last call with what it returned.  A reference into  *)
(* the buffer (&T, &mut T) is modelled as the 0-based position it points   *)
(* to; an iterator as the sequence of positions it yields; a panic as the  *)
(* result Panic.  usize arithmetic that overflows panics in a build with    *)
(* overflow checks (cargo's dev and test profiles) and wraps modulo        *)
(* 2^UsizeBits in a build without them (the release profile).              *)
(***************************************************************************)
EXTENDS Integers, Sequences, FiniteSets, TLC

VARIABLES overflow_checks, phase, rows, cols, data, view, call, ret

vars == <<overflow_checks, phase, rows, cols, data, view, call, ret>>

(* ---------------------------------------------------------------- bounds *)

\* Largest of the small dimensions and coordinates the callers pass.
MaxDim == 2

\* Width of usize in bits (scaled down from 32/64).
UsizeBits == 5

\* Largest buffer, in elements, that the memory of the caller holds: vec!
\* fails beyond it, and no caller has a longer Vec to hand to from_parts.
MaxLen == 5

\* The element type T: two distinguishable values, the first is T::default().
Vals == {0, 1}

Default == 0

Modulus == 2 ^ UsizeBits

UsizeMax == Modulus - 1

Half == Modulus \div 2

\* Dimensions passed to the constructors, a sample of all of usize: the
\* small ones and two large ones whose products do not fit.
Dims == (0 .. MaxDim) \cup {Half, UsizeMax}

\* Coordinates passed to the accessors: the small ones (every valid
\* coordinate of a small matrix and one past) and the largest usize.
Coords == (0 .. MaxDim) \cup {UsizeMax}

\* How far a caller walks into an iterator of one row, column or chunk.
Small == 0 .. MaxDim

\* Sequences over S of length at most n.
SeqsUpTo(S, n) == UNION {[1 .. k -> S] : k \in 0 .. n}

(* ------------------------------------------------------ usize arithmetic *)

\* What an expression evaluates to when its arithmetic panicked
\* ("attempt to multiply with overflow", "attempt to add with overflow").
Overflowed == 0 - 1

\* a * b in usize
Mul(a, b) ==
    IF a = Overflowed \/ b = Overflowed THEN Overflowed
    ELSE IF a * b < Modulus THEN a * b
    ELSE IF overflow_checks THEN Overflowed ELSE (a * b) % Modulus

\* a + b in usize
Add(a, b) ==
    IF a = Overflowed \/ b = Overflowed THEN Overflowed
    ELSE IF a + b < Modulus THEN a + b
    ELSE IF overflow_checks THEN Overflowed ELSE (a + b) % Modulus

(* ---------------------------------------------------------------- results *)

Panic == [kind |-> "Panic", val |-> 0]

None == [kind |-> "None", val |-> 0]

Unit == [kind |-> "Unit", val |-> 0]

\* Some(&buffer[i]): a reference to position i of the buffer.
Some(i) == [kind |-> "Some", val |-> i]

\* An iterator yielding references to the positions s[1], s[2], ...
Items(s) == [kind |-> "Items", val |-> s]

\* An iterator yielding sub-slices, each the sequence of its positions.
Chunks(cs) == [kind |-> "Chunks", val |-> cs]

\* An owned Vec<T>.
Vec(s) == [kind |-> "Vec", val |-> s]

\* A usize.
Usize(n) == [kind |-> "Usize", val |-> n]

\* The result of an unchecked access outside the buffer (undefined behaviour).
Dangling(i) == [kind |-> "Dangling", val |-> i]

Crash == [kind |-> "Crash", val |-> 0]

NoCall == [op |-> "none", a |-> 0, b |-> 0, k |-> 0, v |-> 0, d |-> <<>>]

Call(op, a, b) == [op |-> op, a |-> a, b |-> b, k |-> 0, v |-> 0, d |-> <<>>]

CallW(op, a, b, k, v) == [op |-> op, a |-> a, b |-> b, k |-> k, v |-> v, d |-> <<>>]

CallD(op, a, b, v, d) == [op |-> op, a |-> a, b |-> b, k |-> 0, v |-> v, d |-> d]

NoView == [kind |-> "none", rows |-> 0, cols |-> 0, len |-> 0]

(* ------------------------------------------------- the standard library *)

\* <<a, a+1, ..., b-1>>
Range(a, b) == [i \in 1 .. (b - a) |-> a + i - 1]

\* vec![x; n]
VecRepeat(x, n) == [i \in 1 .. n |-> x]

\* slice.get_unchecked(i): in bounds it is &slice[i]; outside it is undefined
\* behaviour, which may hand back a dangling reference, any element, or crash.
SliceGetUnchecked(len, i) ==
    IF i = Overflowed THEN {Panic}
    ELSE IF i < len THEN {Some(i)}
    ELSE {Dangling(i), Crash} \cup {Some(j) : j \in 0 .. len - 1}

\* &slice[i]
SliceIndex(len, i) == IF i # Overflowed /\ i < len THEN Some(i) ELSE Panic

\* slice[a..b].iter()
SliceRange(len, a, b) ==
    IF a = Overflowed \/ b = Overflowed \/ a > b \/ b > len
    THEN Panic ELSE Items(Range(a, b))

\* slice.iter()
SliceIter(len) == Items(Range(0, len))

RECURSIVE StepFrom(_, _, _)
StepFrom(len, i, step) ==
    IF i >= len THEN <<>> ELSE <<i>> \o StepFrom(len, i + step, step)

\* slice.iter().skip(n).step_by(step): step_by asserts step != 0.
SkipStepBy(len, n, step) ==
    IF step = 0 THEN Panic ELSE Items(StepFrom(len, n, step))

RECURSIVE ChunksFrom(_, _, _)
ChunksFrom(len, i, size) ==
    IF i >= len THEN <<>>
    ELSE <<Range(i, IF i + size < len THEN i + size ELSE len)>>
             \o ChunksFrom(len, i + size, size)

\* slice.chunks(size): panics when size is 0; the last chunk may be shorter.
SliceChunks(len, size) ==
    IF size = 0 THEN Panic ELSE Chunks(ChunksFrom(len, 0, size))

(* ---------------------------------------------------------------- Matrix *)

\* The flat position row * cols + col, computed in usize.
FlatIndex(row, col, ncols) == Add(Mul(row, ncols), col)

Matrix_get_unchecked(row, col) ==
    SliceGetUnchecked(Len(data), FlatIndex(row, col, cols))

Matrix_get_unchecked_mut(row, col) ==
    SliceGetUnchecked(Len(data), FlatIndex(row, col, cols))

\* Matrix_get with the row check off by one (row <= rows).
Matrix_get_RowInclusive(row, col) ==
    IF row <= rows /\ col < cols THEN Matrix_get_unchecked(row, col) ELSE {None}

Matrix_get(row, col) ==
    IF row < rows /\ col < cols THEN Matrix_get_unchecked(row, col) ELSE {None}

Matrix_get_mut(row, col) ==
    IF row < rows /\ col < cols THEN Matrix_get_unchecked_mut(row, col) ELSE {None}

Matrix_rows == rows

Matrix_cols == cols

Matrix_iter_rows == SliceChunks(Len(data), cols)

Matrix_iter_rows_mut == SliceChunks(Len(data), cols)

Matrix_iter == SliceIter(Len(data))

Matrix_iter_mut == SliceIter(Len(data))

\* Matrix_iter_row with the row length taken from rows instead of cols.
Matrix_iter_row_ByRows(row) ==
    SliceRange(Len(data), Mul(row, rows), Mul(Add(row, 1), rows))

Matrix_iter_row(row) ==
    SliceRange(Len(data), Mul(row, cols), Mul(Add(row, 1), cols))

Matrix_iter_row_mut(row) ==
    SliceRange(Len(data), Mul(row, cols), Mul(Add(row, 1), cols))

\* Matrix_iter_col striding by rows instead of cols.
Matrix_iter_col_ByRows(col) == SkipStepBy(Len(data), col, rows)

Matrix_iter_col(col) == SkipStepBy(Len(data), col, cols)

Matrix_iter_col_mut(col) == SkipStepBy(Len(data), col, cols)

Matrix_clone_buffer == data

Matrix_index(row, col) == SliceIndex(Len(data), FlatIndex(row, col, cols))

Matrix_index_mut(row, col) == SliceIndex(Len(data), FlatIndex(row, col, cols))

(* ------------------------------------------------------ calls and writes *)

\* A call that leaves the matrix as it is and returns r.
Returns(c, r) ==
    /\ call' = c
    /\ ret' = r
    /\ UNCHANGED <<overflow_checks, phase, rows, cols, data, view>>

\* A call that returns r and then assigns v through the reference t it gave
\* out (*t = v); a t that is no reference into the buffer leaves the buffer.
Assigns(c, r, t, v) ==
    /\ call' = c
    /\ ret' = r
    /\ data' = IF t.kind = "Some" THEN [data EXCEPT ![t.val + 1] = v] ELSE data
    /\ UNCHANGED <<overflow_checks, phase, rows, cols, view>>

\* The k-th reference (0-based) an iterator yields, None when it yields fewer.
Nth(it, k) ==
    IF it.kind = "Items" /\ k < Len(it.val) THEN Some(it.val[k + 1]) ELSE None

\* The k-th element of the j-th chunk a chunk iterator yields.
NthOfChunk(it, j, k) ==
    IF it.kind = "Chunks" /\ j < Len(it.val) /\ k < Len(it.val[j + 1])
    THEN Some(it.val[j + 1][k + 1]) ELSE None

\* Positions a caller counts up to when it walks an iterator.
Steps == 0 .. MaxLen

(* --------------------------------------------------------- constructors *)

\* The matrix {rows, cols, data} comes into being.
Builds(c, r, nc, d) ==
    /\ phase' = "live"
    /\ rows' = r
    /\ cols' = nc
    /\ data' = d
    /\ call' = c
    /\ ret' = Unit
    /\ UNCHANGED <<overflow_checks, view>>

\* The constructor panics: there is no matrix to operate on.
Fails(c) ==
    /\ phase' = "failed"
    /\ call' = c
    /\ ret' = Panic
    /\ UNCHANGED <<overflow_checks, rows, cols, data, view>>

\* New with a buffer of rows + cols elements.
New_SumLength ==
    /\ phase = "none"
    /\ \E r \in Dims, c \in Dims :
         IF Add(r, c) = Overflowed \/ Add(r, c) > MaxLen
         THEN Fails(Call("new", r, c))
         ELSE Builds(Call("new", r, c), r, c, VecRepeat(Default, Add(r, c)))

New ==
    /\ phase = "none"
    /\ \E r \in Dims, c \in Dims :
         IF Mul(r, c) = Overflowed \/ Mul(r, c) > MaxLen
         THEN Fails(Call("new", r, c))
         ELSE Builds(Call("new", r, c), r, c, VecRepeat(Default, Mul(r, c)))

FromDefault ==
    /\ phase = "none"
    /\ \E r \in Dims, c \in Dims, v \in Vals :
         IF Mul(r, c) = Overflowed \/ Mul(r, c) > MaxLen
         THEN Fails(CallD("from_default", r, c, v, <<>>))
         ELSE Builds(CallD("from_default", r, c, v, <<>>), r, c,
                     VecRepeat(v, Mul(r, c)))

\* FromParts asserting rows * cols <= data.len().
FromParts_AtLeast ==
    /\ phase = "none"
    /\ \E r \in Dims, c \in Dims, d \in SeqsUpTo(Vals, MaxLen) :
         IF Mul(r, c) # Overflowed /\ Mul(r, c) <= Len(d)
         THEN Builds(CallD("from_parts", r, c, 0, d), r, c, d)
         ELSE Fails(CallD("from_parts", r, c, 0, d))

FromParts ==
    /\ phase = "none"
    /\ \E r \in Dims, c \in Dims, d \in SeqsUpTo(Vals, MaxLen) :
         IF Mul(r, c) # Overflowed /\ Mul(r, c) = Len(d)
         THEN Builds(CallD("from_parts", r, c, 0, d), r, c, d)
         ELSE Fails(CallD("from_parts", r, c, 0, d))

(* ------------------------------------------------------ Matrix accessors *)

\* Shared borrows of the matrix are allowed while no exclusive view lives.
CanRead == phase = "live" /\ view.kind # "mut"

\* Exclusive borrows of the matrix are allowed while no view lives.
CanWrite == phase = "live" /\ view.kind = "none"

Get ==
    /\ CanRead
    /\ \E row \in Coords, col \in Coords :
         \E r \in Matrix_get(row, col) : Returns(Call("get", row, col), r)

GetMut ==
    /\ CanWrite
    /\ \E row \in Coords, col \in Coords, v \in Vals :
         \E r \in Matrix_get_mut(row, col) :
            Assigns(CallW("get_mut", row, col, 0, v), r, r, v)

Rows == CanRead /\ Returns(Call("rows", 0, 0), Usize(Matrix_rows))

Cols == CanRead /\ Returns(Call("cols", 0, 0), Usize(Matrix_cols))

IterRows == CanRead /\ Returns(Call("iter_rows", 0, 0), Matrix_iter_rows)

IterRowsMut ==
    /\ CanWrite
    /\ \E j \in Coords, k \in Small, v \in Vals :
         Assigns(CallW("iter_rows_mut", j, 0, k, v), Matrix_iter_rows_mut,
                 NthOfChunk(Matrix_iter_rows_mut, j, k), v)

Iter == CanRead /\ Returns(Call("iter", 0, 0), Matrix_iter)

IterMut ==
    /\ CanWrite
    /\ \E k \in Steps, v \in Vals :
         Assigns(CallW("iter_mut", 0, 0, k, v), Matrix_iter_mut,
                 Nth(Matrix_iter_mut, k), v)

IterRow ==
    /\ CanRead
    /\ \E row \in Coords : Returns(Call("iter_row", row, 0), Matrix_iter_row(row))

IterRowMut ==
    /\ CanWrite
    /\ \E row \in Coords, k \in Small, v \in Vals :
         Assigns(CallW("iter_row_mut", row, 0, k, v), Matrix_iter_row_mut(row),
                 Nth(Matrix_iter_row_mut(row), k), v)

IterCol ==
    /\ CanRead
    /\ \E col \in Coords : Returns(Call("iter_col", 0, col), Matrix_iter_col(col))

IterColMut ==
    /\ CanWrite
    /\ \E col \in Coords, k \in Small, v \in Vals :
         Assigns(CallW("iter_col_mut", 0, col, k, v), Matrix_iter_col_mut(col),
                 Nth(Matrix_iter_col_mut(col), k), v)

CloneBuffer ==
    CanRead /\ Returns(Call("clone_buffer", 0, 0), Vec(Matrix_clone_buffer))

\* m.data_mut()[i] = v: the slice cannot change its length.
DataMut ==
    /\ CanWrite
    /\ \E i \in Steps, v \in Vals :
         Assigns(CallW("data_mut", 0, 0, i, v), SliceIndex(Len(data), i),
                 SliceIndex(Len(data), i), v)

\* m[(row, col)]
IndexOp ==
    /\ CanRead
    /\ \E row \in Coords, col \in Coords :
         Returns(Call("index", row, col), Matrix_index(row, col))

\* m[(row, col)] = v
IndexMutOp ==
    /\ CanWrite
    /\ \E row \in Coords, col \in Coords, v \in Vals :
         Assigns(CallW("index_mut", row, col, 0, v), Matrix_index_mut(row, col),
                 Matrix_index_mut(row, col), v)

(* ----------------------------------------------------------- MatrixSlice *)

\* A view holds rows, cols and a borrowed slice of the matrix's buffer: the
\* slice is the buffer itself (the variable data) with the length it had.
MatrixSlice_new ==
    [kind |-> "shared", rows |-> Matrix_rows, cols |-> Matrix_cols,
     len |-> Len(data)]

MatrixSlice_get_unchecked(row, col) ==
    SliceGetUnchecked(view.len, FlatIndex(row, col, view.cols))

MatrixSlice_get(row, col) ==
    IF row < view.rows /\ col < view.cols
    THEN MatrixSlice_get_unchecked(row, col) ELSE {None}

MatrixSlice_rows == view.rows

MatrixSlice_cols == view.cols

MatrixSlice_iter_rows == SliceChunks(view.len, view.cols)

MatrixSlice_iter == SliceIter(view.len)

MatrixSlice_iter_row(row) ==
    SliceRange(view.len, Mul(row, view.cols), Mul(Add(row, 1), view.cols))

MatrixSlice_iter_col(col) == SkipStepBy(view.len, col, view.cols)

AsSlice ==
    /\ phase = "live"
    /\ view.kind = "none"
    /\ view' = MatrixSlice_new
    /\ call' = Call("as_slice", 0, 0)
    /\ ret' = Unit
    /\ UNCHANGED <<overflow_checks, phase, rows, cols, data>>

HasSlice == phase = "live" /\ view.kind = "shared"

SliceGet ==
    /\ HasSlice
    /\ \E row \in Coords, col \in Coords :
         \E r \in MatrixSlice_get(row, col) :
            Returns(Call("slice.get", row, col), r)

SliceIterRows ==
    HasSlice /\ Returns(Call("slice.iter_rows", 0, 0), MatrixSlice_iter_rows)

SliceIterOp == HasSlice /\ Returns(Call("slice.iter", 0, 0), MatrixSlice_iter)

SliceIterRow ==
    /\ HasSlice
    /\ \E row \in Coords :
         Returns(Call("slice.iter_row", row, 0), MatrixSlice_iter_row(row))

SliceIterCol ==
    /\ HasSlice
    /\ \E col \in Coords :
         Returns(Call("slice.iter_col", 0, col), MatrixSlice_iter_col(col))

(* -------------------------------------------------------- MatrixSliceMut *)

\* MatrixSliceMut_new with rows and cols exchanged.
MatrixSliceMut_new_Transposed ==
    [kind |-> "mut", rows |-> Matrix_cols, cols |-> Matrix_rows,
     len |-> Len(data)]

MatrixSliceMut_new ==
    [kind |-> "mut", rows |-> Matrix_rows, cols |-> Matrix_cols,
     len |-> Len(data)]

MatrixSliceMut_get_unchecked(row, col) ==
    SliceGetUnchecked(view.len, FlatIndex(row, col, view.cols))

MatrixSliceMut_get_unchecked_mut(row, col) ==
    SliceGetUnchecked(view.len, FlatIndex(row, col, view.cols))

MatrixSliceMut_get(row, col) ==
    IF row < view.rows /\ col < view.cols
    THEN MatrixSliceMut_get_unchecked(row, col) ELSE {None}

MatrixSliceMut_get_mut(row, col) ==
    IF row < view.rows /\ col < view.cols
    THEN MatrixSliceMut_get_unchecked_mut(row, col) ELSE {None}

MatrixSliceMut_rows == view.rows

MatrixSliceMut_cols == view.cols

MatrixSliceMut_iter_rows == SliceChunks(view.len, view.cols)

MatrixSliceMut_iter_rows_mut == SliceChunks(view.len, view.cols)

MatrixSliceMut_iter_mut == SliceIter(view.len)

MatrixSliceMut_iter_row(row) ==
    SliceRange(view.len, Mul(row, view.cols), Mul(Add(row, 1), view.cols))

MatrixSliceMut_iter_row_mut(row) ==
    SliceRange(view.len, Mul(row, view.cols), Mul(Add(row, 1), view.cols))

MatrixSliceMut_iter_col(col) == SkipStepBy(view.len, col, view.cols)

MatrixSliceMut_iter_col_mut(col) == SkipStepBy(view.len, col, view.cols)

AsSliceMut ==
    /\ phase = "live"
    /\ view.kind = "none"
    /\ view' = MatrixSliceMut_new
    /\ call' = Call("as_slice_mut", 0, 0)
    /\ ret' = Unit
    /\ UNCHANGED <<overflow_checks, phase, rows, cols, data>>

HasSliceMut == phase = "live" /\ view.kind = "mut"

SliceMutGet ==
    /\ HasSliceMut
    /\ \E row \in Coords, col \in Coords :
         \E r \in MatrixSliceMut_get(row, col) :
            Returns(Call("slicemut.get", row, col), r)

SliceMutGetMut ==
    /\ HasSliceMut
    /\ \E row \in Coords, col \in Coords, v \in Vals :
         \E r \in MatrixSliceMut_get_mut(row, col) :
            Assigns(CallW("slicemut.get_mut", row, col, 0, v), r, r, v)

SliceMutIterRows ==
    HasSliceMut
    /\ Returns(Call("slicemut.iter_rows", 0, 0), MatrixSliceMut_iter_rows)

SliceMutIterRowsMut ==
    /\ HasSliceMut
    /\ \E j \in Coords, k \in Small, v \in Vals :
         Assigns(CallW("slicemut.iter_rows_mut", j, 0, k, v),
                 MatrixSliceMut_iter_rows_mut,
                 NthOfChunk(MatrixSliceMut_iter_rows_mut, j, k), v)

\* view.data_mut()[i] = v
SliceMutDataMut ==
    /\ HasSliceMut
    /\ \E i \in Steps, v \in Vals :
         Assigns(CallW("slicemut.data_mut", 0, 0, i, v), SliceIndex(view.len, i),
                 SliceIndex(view.len, i), v)

SliceMutIterMut ==
    /\ HasSliceMut
    /\ \E k \in Steps, v \in Vals :
         Assigns(CallW("slicemut.iter_mut", 0, 0, k, v), MatrixSliceMut_iter_mut,
                 Nth(MatrixSliceMut_iter_mut, k), v)

SliceMutIterRow ==
    /\ HasSliceMut
    /\ \E row \in Coords :
         Returns(Call("slicemut.iter_row", row, 0), MatrixSliceMut_iter_row(row))

SliceMutIterRowMut ==
    /\ HasSliceMut
    /\ \E row \in Coords, k \in Small, v \in Vals :
         Assigns(CallW("slicemut.iter_row_mut", row, 0, k, v),
                 MatrixSliceMut_iter_row_mut(row),
                 Nth(MatrixSliceMut_iter_row_mut(row), k), v)

SliceMutIterCol ==
    /\ HasSliceMut
    /\ \E col \in Coords :
         Returns(Call("slicemut.iter_col", 0, col), MatrixSliceMut_iter_col(col))

SliceMutIterColMut ==
    /\ HasSliceMut
    /\ \E col \in Coords, k \in Small, v \in Vals :
         Assigns(CallW("slicemut.iter_col_mut", 0, col, k, v),
                 MatrixSliceMut_iter_col_mut(col),
                 Nth(MatrixSliceMut_iter_col_mut(col), k), v)

\* The view goes out of scope: the borrow ends.
DropView ==
    /\ phase = "live"
    /\ view.kind # "none"
    /\ view' = NoView
    /\ call' = Call("drop", 0, 0)
    /\ ret' = Unit
    /\ UNCHANGED <<overflow_checks, phase, rows, cols, data>>

(* --------------------------------------------------------- specification *)

\* No matrix yet, in a build with overflow checks (checks) or without.
Start(checks) ==
    /\ overflow_checks = checks
    /\ phase = "none"
    /\ rows = 0
    /\ cols = 0
    /\ data = <<>>
    /\ view = NoView
    /\ call = NoCall
    /\ ret = Unit

Init == Start(TRUE)

InitWrapping == Start(FALSE)

\* Every operation on a built matrix and its views.
Operate ==
    \/ Get \/ GetMut \/ Rows \/ Cols
    \/ IterRows \/ IterRowsMut \/ Iter \/ IterMut
    \/ IterRow \/ IterRowMut \/ IterCol \/ IterColMut
    \/ CloneBuffer \/ DataMut \/ IndexOp \/ IndexMutOp
    \/ AsSlice \/ SliceGet \/ SliceIterRows \/ SliceIterOp
    \/ SliceIterRow \/ SliceIterCol
    \/ AsSliceMut \/ SliceMutGet \/ SliceMutGetMut \/ SliceMutIterRows
    \/ SliceMutIterRowsMut \/ SliceMutDataMut
    \/ SliceMutIterMut \/ SliceMutIterRow \/ SliceMutIterRowMut
    \/ SliceMutIterCol \/ SliceMutIterColMut
    \/ DropView

Next == New \/ FromDefault \/ FromParts \/ Operate

\* The program built with overflow checks.
Spec == Init /\ [][Next]_vars

\* The program built without overflow checks.
SpecWrapping == InitWrapping /\ [][Next]_vars

(* ---------------------------------------------- notions the claims use *)

Live == phase = "live"

\* (row, col) names a cell of the rows x cols grid.
InGrid(row, col, nrows, ncols) == row < nrows /\ col < ncols

\* What Option<&T> holds: the value the reference points to, or nothing.
Deref(r) ==
    IF r.kind = "Some" /\ r.val < Len(data)
    THEN <<"Some", data[r.val + 1]>> ELSE <<r.kind>>

\* What a checked accessor must give at (row, col) of a rows x cols grid laid
\* out row-major: the cell at row * cols + col, or nothing outside the grid.
CellOrNone(row, col, nrows, ncols) ==
    IF InGrid(row, col, nrows, ncols) THEN {Some(row * ncols + col)} ELSE {None}

\* The positions of logical row r, left to right.
RowCells(r, ncols) == [k \in 1 .. ncols |-> r * ncols + (k - 1)]

\* The positions of logical column c, top to bottom.
ColCells(c, nrows, ncols) == [k \in 1 .. nrows |-> (k - 1) * ncols + c]

\* The grid a Matrix shows through get, as values.
MatrixGrid == [rc \in Coords \X Coords |-> {Deref(r) : r \in Matrix_get(rc[1], rc[2])}]

\* The grid a view shows through get, as values.
ViewGrid ==
    [rc \in Coords \X Coords |->
        {Deref(r) : r \in IF view.kind = "shared"
                           THEN MatrixSlice_get(rc[1], rc[2])
                           ELSE MatrixSliceMut_get(rc[1], rc[2])}]

\* rows() and cols() of the live view.
ViewRows == IF view.kind = "shared" THEN MatrixSlice_rows ELSE MatrixSliceMut_rows

ViewCols == IF view.kind = "shared" THEN MatrixSlice_cols ELSE MatrixSliceMut_cols

RECURSIVE RowsConcat(_)
\* iter_row(0) ++ iter_row(1) ++ ... ++ iter_row(n - 1), as positions.
RowsConcat(n) ==
    IF n = 0 THEN <<>> ELSE RowsConcat(n - 1) \o Matrix_iter_row(n - 1).val

(* ------------------------------------------------------------------- C1 *)

\* C1: whenever a Matrix exists its buffer has exactly rows * cols elements,
\* after every constructor that returns and after every mutating operation,
\* and no operation changes rows or cols once the Matrix is built.
C1_LengthIsRowsTimesCols ==
    /\ [](Live => Len(data) = rows * cols)
    /\ [][Live => (rows' = rows /\ cols' = cols /\ Len(data') = Len(data))]_vars

\* A 2 x 2 matrix that has just been written through a mutable view.
C1_Witness ==
    /\ Live /\ rows = 2 /\ cols = 2
    /\ call.op = "slicemut.iter_mut" /\ call.k = 3 /\ call.v = 1
    /\ data[4] = 1

(* ------------------------------------------------------------------- C2 *)

\* C2: get and get_mut of a Matrix, get of an immutable view and get and
\* get_mut of a mutable view return the cell at row * cols + col when
\* row < rows and col < cols, and None otherwise: never a panic, never another
\* cell.  A write through get_mut lands in that cell.
C2_CheckedAccess ==
    Live =>
      /\ \A row \in Coords, col \in Coords :
           /\ Matrix_get(row, col) = CellOrNone(row, col, rows, cols)
           /\ Matrix_get_mut(row, col) = CellOrNone(row, col, rows, cols)
           /\ view.kind = "shared" =>
                MatrixSlice_get(row, col) = CellOrNone(row, col, rows, cols)
           /\ view.kind = "mut" =>
                /\ MatrixSliceMut_get(row, col) = CellOrNone(row, col, rows, cols)
                /\ MatrixSliceMut_get_mut(row, col) = CellOrNone(row, col, rows, cols)
           /\ InGrid(row, col, rows, cols) => row * cols + col < Len(data)
      /\ call.op \in {"get", "get_mut", "slice.get", "slicemut.get", "slicemut.get_mut"} =>
           /\ ret \in CellOrNone(call.a, call.b, rows, cols)
           /\ (call.op \in {"get_mut", "slicemut.get_mut"} /\ ret.kind = "Some") =>
                data[call.a * cols + call.b + 1] = call.v

\* get(1, 0) on a matrix of two columns has returned the cell at position 2.
C2_Witness ==
    /\ Live /\ cols = 2 /\ call.op = "get" /\ call.a = 1 /\ call.b = 0
    /\ ret = Some(2)

(* ------------------------------------------------------------------- C3 *)

\* C3: m[(row, col)], read or written, panics whenever row >= rows or
\* col >= cols; it never returns or modifies a cell.
C3_IndexPanicsOutsideGrid ==
    (Live /\ call.op \in {"index", "index_mut"}
          /\ ~InGrid(call.a, call.b, rows, cols)) => ret = Panic

(* ------------------------------------------------------------------- C4 *)

\* C4: from_parts(rows, cols, data) panics when len(data) # rows * cols and
\* otherwise yields a Matrix with rows() = rows, cols() = cols and
\* clone_buffer() = data, element for element.
C4_FromPartsRoundTrip ==
    call.op = "from_parts" =>
      IF Len(call.d) # call.a * call.b
      THEN phase = "failed" /\ ret = Panic
      ELSE /\ Live
           /\ Matrix_rows = call.a
           /\ Matrix_cols = call.b
           /\ Matrix_clone_buffer = call.d

\* from_parts(2, 2, <<0, 1, 1, 1>>) has returned a matrix.
C4_Witness ==
    Live /\ call.op = "from_parts" /\ call.a = 2 /\ call.d = <<0, 1, 1, 1>>

(* ------------------------------------------------------------------- C5 *)

\* The chunks iter_rows must yield: the rows, in order.
RowChunks(nrows, ncols) == Chunks([i \in 1 .. nrows |-> RowCells(i - 1, ncols)])

\* C5: for every Matrix, a dimension of 0 included, iter_rows, iter_rows_mut
\* and the views' iter_rows yield exactly rows chunks of exactly cols
\* elements each, the i-th being buffer[i*cols .. (i+1)*cols].
C5_IterRowsPartitions ==
    (Live /\ call.op \in {"iter_rows", "iter_rows_mut", "slice.iter_rows",
                          "slicemut.iter_rows", "slicemut.iter_rows_mut"})
      => ret = RowChunks(rows, cols)

(* ------------------------------------------------------------------- C6 *)

\* C6: for c < cols, iter_col(c) and iter_col_mut(c) yield exactly rows
\* elements, the k-th being the cell (k, c) at buffer[k * cols + c], and a
\* write through the k-th element of iter_col_mut lands in that cell.
C6_IterColIsColumn ==
    Live =>
      /\ \A c \in Coords : c < cols =>
           /\ Matrix_iter_col(c) = Items(ColCells(c, rows, cols))
           /\ Matrix_iter_col_mut(c) = Items(ColCells(c, rows, cols))
      /\ (call.op \in {"iter_col", "iter_col_mut"} /\ call.b < cols) =>
           /\ ret = Items(ColCells(call.b, rows, cols))
           /\ (call.op = "iter_col_mut" /\ call.k < rows) =>
                data[call.k * cols + call.b + 1] = call.v

\* iter_col(1) on a 2 x 2 matrix has yielded the positions 1 and 3.
C6_Witness ==
    /\ Live /\ rows = 2 /\ cols = 2 /\ call.op = "iter_col" /\ call.b = 1
    /\ ret = Items(<<1, 3>>)

(* ------------------------------------------------------------------- C7 *)

\* C7: for r < rows, iter_row(r) and iter_row_mut(r) yield exactly cols
\* elements, the k-th being the cell (r, k) at buffer[r * cols + k], and
\* iter_row(0) .. iter_row(rows - 1) concatenated is the sequence of iter().
C7_IterRowIsRow ==
    Live =>
      /\ \A r \in Coords : r < rows =>
           /\ Matrix_iter_row(r) = Items(RowCells(r, cols))
           /\ Matrix_iter_row_mut(r) = Items(RowCells(r, cols))
      /\ (\A r \in 0 .. rows - 1 : Matrix_iter_row(r).kind = "Items")
      /\ Matrix_iter = Items(RowsConcat(rows))
      /\ (call.op \in {"iter_row", "iter_row_mut"} /\ call.a < rows) =>
           /\ ret = Items(RowCells(call.a, cols))
           /\ (call.op = "iter_row_mut" /\ call.k < cols) =>
                data[call.a * cols + call.k + 1] = call.v

\* iter_row(1) on a 2 x 2 matrix has yielded the positions 2 and 3.
C7_Witness ==
    /\ Live /\ rows = 2 /\ cols = 2 /\ call.op = "iter_row" /\ call.a = 1
    /\ ret = Items(<<2, 3>>)

(* ------------------------------------------------------------------- C8 *)

\* C8: iter_row(r) and iter_row_mut(r) with r >= rows, and iter_col(c) and
\* iter_col_mut(c) with c >= cols, panic, on a Matrix and on a view; they
\* never complete yielding an empty or a wrong sequence.
C8_LineIterationPanicsOutsideGrid ==
    Live =>
      /\ (call.op \in {"iter_row", "iter_row_mut", "slice.iter_row",
                       "slicemut.iter_row", "slicemut.iter_row_mut"}
          /\ call.a >= rows) => ret = Panic
      /\ (call.op \in {"iter_col", "iter_col_mut", "slice.iter_col",
                       "slicemut.iter_col", "slicemut.iter_col_mut"}
          /\ call.b >= cols) => ret = Panic

(* ------------------------------------------------------------------- C9 *)

\* C9: a view reports the rows, the cols and, at every coordinate, the value
\* of its source Matrix, from its creation on; a write through a mutable
\* view's get_mut or iter_mut shows in the view; and when the view is dropped
\* the Matrix shows at every coordinate the value the view last held, with
\* rows and cols unchanged.
C9_ViewIsTheMatrix ==
    /\ []((Live /\ view.kind # "none") =>
            /\ ViewRows = Matrix_rows
            /\ ViewCols = Matrix_cols
            /\ view.len = Len(data)
            /\ ViewGrid = MatrixGrid)
    /\ []((Live /\ call.op = "slicemut.get_mut" /\ ret.kind = "Some") =>
            ViewGrid[<<call.a, call.b>>] = {<<"Some", call.v>>})
    /\ []((Live /\ call.op = "slicemut.iter_mut" /\ call.k < Len(data)) =>
            data[call.k + 1] = call.v)
    /\ [][(Live /\ view.kind = "mut" /\ view'.kind = "none") =>
            (MatrixGrid' = ViewGrid /\ rows' = rows /\ cols' = cols)]_vars

\* A write of 1 through get_mut(0, 1) of a mutable view of a 1 x 2 matrix.
C9_Witness ==
    /\ Live /\ rows = 1 /\ cols = 2 /\ view.kind = "mut"
    /\ call.op = "slicemut.get_mut" /\ call.a = 0 /\ call.b = 1 /\ call.v = 1
    /\ ret = Some(1)

(* ------------------------------------------------------------------ C10 *)

\* C10: whenever get or get_mut passes its check row < rows /\ col < cols,
\* the position row * cols + col it hands to the unchecked access is inside
\* the buffer, also when rows * cols does not fit in usize.
C10_UncheckedAccessInBounds ==
    (Live /\ call.op \in {"get", "get_mut"} /\ call.a < rows /\ call.b < cols)
      => /\ FlatIndex(call.a, call.b, cols) < Len(data)
         /\ ret = Some(FlatIndex(call.a, call.b, cols))

====
